---- MODULE Spec2Model ----
(***************************************************************************)
(* Synthetic HealthKit generator (scripts/generate_synthetic_healthkit.py) *)
(* and the NHANES-style parametric baseline generator                      *)
(* (scripts/fetch_nhanes_biomarkers.py).                                   *)
(*                                                                         *)
(* Numbers.  A Python float is modelled as a decimal fixed-point integer   *)
(* (each quantity at the scale stated where it is computed) or one of the  *)
(* three non-finite floats NaN, PInf, NInf.  Comparisons follow IEEE-754:  *)
(* every ordered comparison with NaN is false.  Python's max(a, b) keeps   *)
(* a unless b > a, and min(a, b) keeps a unless b < a.                     *)
(*                                                                         *)
(* Randomness.  The state of a generator is a position in a stream of      *)
(* standard-normal scores; a draw reads the score at the position and      *)
(* advances it by the stream's stride.  np.random.normal(mu, sigma) is     *)
(* mu + sigma * z for the score z drawn.                                   *)
(***************************************************************************)
EXTENDS Integers, Sequences, FiniteSets, TLC

VARIABLES
    pc,             \* position of main(): "create", "generate", "baselines", "save", "done", "raised"
    num_people,     \* main.num_people
    days_per_person,\* main.days_per_person
    people,         \* main.people: the list of VirtualPerson
    all_data,       \* main.all_data: the flat record list
    gen_i,          \* index of the next person of the generation loop
    baselines,      \* the tree returned by compute_population_baselines
    results,        \* what main() wrote to the two files
    np_rng,         \* state of numpy's global generator (np.random)
    py_rng,         \* state of Python's global generator (random)
    clock,          \* the wall clock read by datetime.utcnow()
    runs,           \* calls of generate_person_data made by a test driver
    series,         \* the sample handed to stats()
    entry,          \* the value stats() returned
    config,         \* BIOMARKER_DISTRIBUTIONS as configured
    nhanes,         \* the tree returned by generate_baselines()
    seed,           \* the states np.random and random were seeded to
    cohort,         \* the entities created in the current pass, by person_id
    out,            \* the records generated in the current pass, by person_id
    passes,         \* the records of the finished passes
    sim_step,       \* run_simulation.sim_step
    total_steps,    \* run_simulation.total_steps
    current_time,   \* run_simulation.current_time, in minutes after start_time
    readings,       \* run_simulation.readings
    sim_args,       \* run_simulation's arguments patient_name, days, scenario_type
    classified,     \* a value handed to classify_glucose and what it returned
    dataset_args,   \* generate_training_dataset's arguments num_patients, days_per_patient
    selected_patients, \* generate_training_dataset.selected_patients
    all_readings,   \* generate_training_dataset.all_readings
    patient_summaries, \* generate_training_dataset.patient_summaries
    dataset         \* the dataset generate_training_dataset returned

vars == <<pc, num_people, days_per_person, people, all_data, gen_i, baselines,
          results, np_rng, py_rng, clock, runs, series, entry, config, nhanes,
          seed, cohort, out, passes, sim_step, total_steps, current_time, readings,
          sim_args, classified, dataset_args, selected_patients, all_readings,
          patient_summaries, dataset>>

-----------------------------------------------------------------------------
(* Bounds of the model *)

MaxPeople == 12
MaxDays == 7
MaxRecords == 35
MaxStride == 1
MaxRunDays == 2
MaxClock == 1
MaxSeries == 5

-----------------------------------------------------------------------------
(* Python floats *)

\* the three non-finite floats, outside the range of every finite quantity
PInf == 2147483646 + 1
NInf == -PInf
NaN == PInf - 1

IsFinite(x) == x # NaN /\ x # PInf /\ x # NInf

\* x < y, x > y, x <= y, x >= y on floats
FLt(x, y) == x # NaN /\ y # NaN /\ x < y
FGt(x, y) == FLt(y, x)
FLe(x, y) == x # NaN /\ y # NaN /\ x <= y
FGe(x, y) == FLe(y, x)

FNeg(x) == IF x = NaN THEN NaN ELSE IF x = PInf THEN NInf ELSE IF x = NInf THEN PInf ELSE -x

FAdd(x, y) ==
    IF x = NaN \/ y = NaN THEN NaN
    ELSE IF x = PInf THEN (IF y = NInf THEN NaN ELSE PInf)
    ELSE IF x = NInf THEN (IF y = PInf THEN NaN ELSE NInf)
    ELSE IF y = PInf \/ y = NInf THEN y
    ELSE x + y

FSub(x, y) == FAdd(x, FNeg(y))

\* x * k for a finite factor k (k is an integer at its own scale)
FScale(x, k) ==
    IF x = NaN THEN NaN
    ELSE IF x = PInf \/ x = NInf
         THEN (IF k = 0 THEN NaN ELSE IF k > 0 THEN x ELSE FNeg(x))
    ELSE x * k

\* floor(a * b / c) for a, b of any sign and c > 0, without forming a * b
MulDiv(a, b, c) == (a \div c) * b + ((a % c) * b) \div c

\* Python's max(a, b) and min(a, b): the first argument unless the second beats it
PyMaxSwapped(a, b) == IF FGt(a, b) THEN a ELSE b
PyMax(a, b) == IF FGt(b, a) THEN b ELSE a
PyMin(a, b) == IF FLt(b, a) THEN b ELSE a

\* round(x, n): x at scale 1/(unit * 10^n) to the nearest multiple of unit, ties
\* to even; the result counts units.  Non-finite floats round to themselves.
RoundHalfEven(x, unit) ==
    LET q == x \div unit
        r == x % unit
    IN  IF 2 * r < unit THEN q
        ELSE IF 2 * r > unit THEN q + 1
        ELSE IF q % 2 = 0 THEN q ELSE q + 1

PyRound(x, unit) == IF IsFinite(x) THEN RoundHalfEven(x, unit) ELSE x

\* int(x): truncation toward zero; raises ValueError on NaN and OverflowError
\* on an infinity
IntRaises(x) == ~IsFinite(x)
PyInt(x, unit) == IF x >= 0 THEN x \div unit ELSE -((-x) \div unit)

-----------------------------------------------------------------------------
(* The random generators *)

\* Streams of standard-normal scores.  "normal" holds scores a normal draw
\* takes; "nan" has a NaN among them; "wide" adds extreme and non-finite ones.
ZStream(kind) ==
    IF kind = "normal" THEN <<0, 1, -1, 2, -2, 3, -3>>
    ELSE IF kind = "nan" THEN <<0, 1, NaN, -1, 2>>
    ELSE <<0, 1, -2, 3, -6, 6, 20, -20, NaN, PInf, NInf>>

\* np.random.uniform(0.9, 1.1) in hundredths, by stream position
UStream == <<100, 90, 109, 95, 105, 92, 108, 97, 103, 99, 101>>

NpPos(rng, k) == (rng.pos + k * rng.stride) % Len(ZStream(rng.kind))

\* the score of the k-th draw from state rng (k = 0 is the next draw)
NpZ(rng, k) == ZStream(rng.kind)[NpPos(rng, k) + 1]
NpU(rng, k) == UStream[NpPos(rng, k) + 1]

\* the state after k draws
NpSkip(rng, k) == [rng EXCEPT !.pos = NpPos(rng, k)]

\* np.random.normal(mu, sigma) for the score z; sigma > 0, mu finite
Normal(mu, sigma, z) == FAdd(mu, FScale(z, sigma))

NpSeeds(kinds) ==
    { r \in [kind : kinds, pos : 0..10, stride : 1..MaxStride] :
        r.pos < Len(ZStream(r.kind)) }

\* Python's random: uniform variates in hundredths (random.choices) and
\* normal scores in tenths (random.gauss)
PyUStream == <<10, 30, 70, 95>>
PyGStream == <<0, 5, -5, 12>>
PySeeds == {0, 2}
PyPos(rng, k) == (rng + k) % Len(PyUStream)
PyU(rng, k) == PyUStream[PyPos(rng, k) + 1]
PyG(rng, k) == PyGStream[PyPos(rng, k) + 1]

-----------------------------------------------------------------------------
(* POPULATION_PARAMS, CIRCADIAN_PATTERNS, DAY_PATTERNS *)

AgeGroups == <<"18-29", "30-39", "40-49", "50-59", "60-69", "70+">>
Sexes == <<"male", "female">>
ActivityLevels == <<"sedentary", "moderate", "active", "athletic">>

\* hrv_sdnn: mean and std in ms, by age group and sex
HrvParams ==
    [a \in {AgeGroups[i] : i \in 1..6} |->
        CASE a = "18-29" -> [male |-> [mean |-> 55, std |-> 20], female |-> [mean |-> 50, std |-> 18]]
          [] a = "30-39" -> [male |-> [mean |-> 50, std |-> 18], female |-> [mean |-> 45, std |-> 16]]
          [] a = "40-49" -> [male |-> [mean |-> 42, std |-> 15], female |-> [mean |-> 40, std |-> 14]]
          [] a = "50-59" -> [male |-> [mean |-> 35, std |-> 12], female |-> [mean |-> 35, std |-> 12]]
          [] a = "60-69" -> [male |-> [mean |-> 30, std |-> 10], female |-> [mean |-> 30, std |-> 10]]
          [] a = "70+"   -> [male |-> [mean |-> 25, std |-> 8],  female |-> [mean |-> 25, std |-> 8]]]

\* resting_hr: mean and std in bpm, by activity level
RestingHrParams ==
    [sedentary |-> [mean |-> 75, std |-> 8], moderate |-> [mean |-> 68, std |-> 7],
     active |-> [mean |-> 62, std |-> 6], athletic |-> [mean |-> 55, std |-> 5]]

\* sleep_duration: mean and std in tenths of an hour, by age group
SleepParams ==
    [a \in {AgeGroups[i] : i \in 1..6} |->
        CASE a = "18-29" -> [mean |-> 72, std |-> 12]
          [] a = "30-39" -> [mean |-> 70, std |-> 11]
          [] a = "40-49" -> [mean |-> 68, std |-> 10]
          [] a = "50-59" -> [mean |-> 66, std |-> 10]
          [] a = "60-69" -> [mean |-> 65, std |-> 11]
          [] a = "70+"   -> [mean |-> 63, std |-> 12]]

\* sleep_stages: mean and std in hundredths of the total
SleepStageParams ==
    [deep |-> [mean |-> 15, std |-> 5], rem |-> [mean |-> 22, std |-> 4],
     core |-> [mean |-> 50, std |-> 8], awake |-> [mean |-> 8, std |-> 3]]

DailyStepsParams ==
    [sedentary |-> [mean |-> 3500, std |-> 1500], moderate |-> [mean |-> 7000, std |-> 2000],
     active |-> [mean |-> 10000, std |-> 2500], athletic |-> [mean |-> 14000, std |-> 3000]]

ActiveCaloriesParams ==
    [sedentary |-> [mean |-> 200, std |-> 80], moderate |-> [mean |-> 400, std |-> 120],
     active |-> [mean |-> 600, std |-> 150], athletic |-> [mean |-> 900, std |-> 200]]

\* respiratory_rate["normal"], breaths/min
RespiratoryParams == [mean |-> 14, std |-> 2]

\* spo2["healthy"], in tenths of a percent
Spo2Params == [mean |-> 975, std |-> 10, min |-> 940, max |-> 1000]

\* CIRCADIAN_PATTERNS, multipliers in hundredths, index hour + 1
CircadianHeartRate ==
    <<92, 90, 88, 87, 86, 88, 92, 98, 102, 105, 106, 105,
      104, 103, 105, 108, 110, 108, 105, 102, 98, 95, 94, 93>>
CircadianHrv ==
    <<115, 118, 120, 122, 120, 115, 105, 95, 88, 85, 85, 88,
      90, 92, 88, 85, 85, 88, 92, 95, 100, 105, 110, 112>>

\* DAY_PATTERNS, multipliers in hundredths, index weekday + 1 (Monday = 0)
StepsMultiplier == <<85, 100, 100, 100, 95, 80, 75>>
SleepMultiplier == <<95, 100, 100, 100, 100, 115, 110>>
-----------------------------------------------------------------------------
(* class VirtualPerson *)

NoneArg == "None"

\* random.choice(seq) and random.choices(seq, weights)[0] for the uniform
\* variate u, in hundredths
RandomChoice(seq, u) == seq[((u * Len(seq)) \div 100) + 1]
ChooseActivityLevel(u) ==
    IF u < 25 THEN "sedentary"
    ELSE IF u < 65 THEN "moderate"
    ELSE IF u < 90 THEN "active"
    ELSE "athletic"

\* VirtualPerson.__init__: the person, and the two generators after it.
\* Offsets are fractions in hundredths; bedtime and wake variation in twentieths
\* of an hour.
VirtualPersonInit(person_id, age_group, sex, activity_level, nrng, prng) ==
    LET k1 == IF age_group = NoneArg THEN 1 ELSE 0
        k2 == k1 + (IF sex = NoneArg THEN 1 ELSE 0)
        k3 == k2 + (IF activity_level = NoneArg THEN 1 ELSE 0)
    IN  [person |->
            [person_id |-> person_id,
             age_group |-> IF age_group = NoneArg
                           THEN RandomChoice(AgeGroups, PyU(prng, 0)) ELSE age_group,
             sex |-> IF sex = NoneArg THEN RandomChoice(Sexes, PyU(prng, k1)) ELSE sex,
             activity_level |-> IF activity_level = NoneArg
                                THEN ChooseActivityLevel(PyU(prng, k2)) ELSE activity_level,
             hrv_offset |-> Normal(0, 15, NpZ(nrng, 0)),
             hr_offset |-> Normal(0, 10, NpZ(nrng, 1)),
             sleep_offset |-> Normal(0, 10, NpZ(nrng, 2)),
             activity_offset |-> Normal(0, 15, NpZ(nrng, 3)),
             typical_bedtime |-> 450 + 2 * PyG(prng, k3),
             wake_variation |-> PyG(prng, k3 + 1)],
         np_rng |-> NpSkip(nrng, 4),
         py_rng |-> PyPos(prng, k3 + 2)]

\* table[key] of a dict: the entry, or the KeyError raised for a missing key
KeyError == [error |-> "KeyError"]
IsKeyError(x) == DOMAIN x = {"error"}
LookupOrDefault(table, key) ==
    IF key \in DOMAIN table THEN table[key] ELSE table[CHOOSE k \in DOMAIN table : TRUE]
Lookup(table, key) == IF key \in DOMAIN table THEN table[key] ELSE KeyError

\* params["mean"] * (1 + offset): the mean's scale times 1/100
BaseOf(mean, offset) == FScale(FAdd(100, offset), mean)

\* get_hrv(hour), in 1/10000 ms
GetHrv(person, hour, z) ==
    LET params == Lookup(Lookup(HrvParams, person.age_group), person.sex)
        base == BaseOf(params.mean, person.hrv_offset)
        circadian == CircadianHrv[hour + 1]
        noise == Normal(0, params.std * 5000, z)
    IN  PyMax(100000, FAdd(FScale(base, circadian), noise))

\* get_resting_hr(hour), in 1/10000 bpm
GetRestingHr(person, hour, z) ==
    LET params == Lookup(RestingHrParams, person.activity_level)
        base == BaseOf(params.mean, person.hr_offset)
        circadian == CircadianHeartRate[hour + 1]
        noise == Normal(0, params.std * 3000, z)
    IN  PyMax(400000, PyMin(1000000, FAdd(FScale(base, circadian), noise)))

\* get_sleep_duration(day_of_week), in 1/100000 hour
GetSleepDuration(person, day_of_week, z) ==
    LET params == Lookup(SleepParams, person.age_group)
        base == BaseOf(params.mean, person.sleep_offset)
        weekend == SleepMultiplier[day_of_week + 1]
        noise == Normal(0, params.std * 3000, z)
    IN  PyMax(300000, PyMin(1200000, FAdd(FScale(base, weekend), noise)))

\* total_mins * pct, for total_mins in 1/100000 minute and pct in hundredths;
\* the product in 1/100000 minute
StageMinutes(total_mins, pct) ==
    IF IsFinite(pct) THEN MulDiv(total_mins, pct, 100) ELSE FScale(pct, total_mins)

\* the fraction left to the core stage, in hundredths
CorePctNoAwake(deep_pct, rem_pct, awake_pct) == FSub(FSub(100, deep_pct), rem_pct)
CorePct(deep_pct, rem_pct, awake_pct) ==
    FSub(FSub(FSub(100, deep_pct), rem_pct), awake_pct)

\* get_sleep_stages(total_sleep_hours): the fractions drawn and the four
\* stage durations in 1/100000 minute
GetSleepStages(total_sleep_hours, zd, zr, za) ==
    LET total_mins == total_sleep_hours * 60
        deep_pct == PyMax(5, Normal(SleepStageParams.deep.mean, SleepStageParams.deep.std, zd))
        rem_pct == PyMax(10, Normal(SleepStageParams.rem.mean, SleepStageParams.rem.std, zr))
        awake_pct == PyMax(2, Normal(SleepStageParams.awake.mean, SleepStageParams.awake.std, za))
        core_pct == CorePct(deep_pct, rem_pct, awake_pct)
    IN  [deep_pct |-> deep_pct, rem_pct |-> rem_pct, core_pct |-> core_pct,
         awake_pct |-> awake_pct,
         deep_minutes |-> StageMinutes(total_mins, deep_pct),
         rem_minutes |-> StageMinutes(total_mins, rem_pct),
         core_minutes |-> StageMinutes(total_mins, core_pct),
         awake_minutes |-> StageMinutes(total_mins, awake_pct)]

\* the float handed to int() by get_daily_steps(day_of_week), in 1/10000 step
DailyStepsFloat(person, day_of_week, z) ==
    LET params == Lookup(DailyStepsParams, person.activity_level)
        base == BaseOf(params.mean, person.activity_offset)
        day_effect == StepsMultiplier[day_of_week + 1]
        noise == Normal(0, params.std * 5000, z)
    IN  FAdd(FScale(base, day_effect), noise)

\* get_daily_steps(day_of_week), where int() does not raise
GetDailySteps(person, day_of_week, z) ==
    PyMax(500, PyInt(DailyStepsFloat(person, day_of_week, z), 10000))

\* get_active_calories(day_of_week), in 1/10000 kcal
GetActiveCalories(person, day_of_week, z) ==
    LET params == Lookup(ActiveCaloriesParams, person.activity_level)
        base == BaseOf(params.mean, person.activity_offset)
        day_effect == StepsMultiplier[day_of_week + 1]
        noise == Normal(0, params.std * 4000, z)
    IN  PyMax(500000, FAdd(FScale(base, day_effect), noise))

\* get_respiratory_rate(), in tenths of a breath/min
GetRespiratoryRate(z) ==
    PyMax(80, PyMin(220, Normal(RespiratoryParams.mean * 10, RespiratoryParams.std * 10, z)))

\* get_spo2(), in tenths of a percent
GetSpo2(z) ==
    LET value == Normal(Spo2Params.mean, Spo2Params.std, z)
    IN  PyMax(Spo2Params.min, PyMin(Spo2Params.max, value))

\* get_distance(steps), in 1/10000000 km; u is np.random.uniform(0.9, 1.1) in
\* hundredths
GetDistance(person, steps, u) ==
    LET stride_m == (IF person.sex = "female" THEN 75 ELSE 78) * u
    IN  steps * stride_m
-----------------------------------------------------------------------------
(* generate_person_data *)

\* Dates are days since 2024-01-01, a Monday; main's start_date is day 0.
StartDate == 0
Weekday(date) == date % 7

\* strftime("%Y-%m-%d"), for the dates of 2024's first quarter
Strftime(date) ==
    IF date < 31 THEN <<2024, 1, date + 1>>
    ELSE IF date < 60 THEN <<2024, 2, date - 30>>
    ELSE <<2024, 3, date - 59>>

HourlyHours == <<7, 12, 18, 22>>

\* the number of draws one day takes from np.random, and the numbers taken
\* before the lookup of get_daily_steps, before its int(), and before the
\* lookup of get_hrv
DrawsPerDay == 19
DrawsToStepsParams == 4
DrawsToSteps == 5
DrawsToHrv == 10

\* the date of the record of day day_offset
CurrentDateFromClock(start_date, day_offset) == clock + day_offset
CurrentDate(start_date, day_offset) == start_date + day_offset

\* the draws the loop body has taken when it raises for this day, -1 when it
\* does not raise: KeyError in get_sleep_duration's lookup, KeyError in
\* get_daily_steps' lookup, int() of a non-finite float, KeyError in get_hrv's
\* lookup (the tables of get_active_calories and get_resting_hr have the keys
\* of get_daily_steps' table)
RaisesAfter(person, start_date, day_offset, rng) ==
    IF IsKeyError(Lookup(SleepParams, person.age_group)) THEN 0
    ELSE IF IsKeyError(Lookup(DailyStepsParams, person.activity_level))
    THEN DrawsToStepsParams
    ELSE IF IntRaises(DailyStepsFloat(person, Weekday(CurrentDate(start_date, day_offset)),
                                      NpZ(rng, 4)))
    THEN DrawsToSteps
    ELSE IF IsKeyError(Lookup(Lookup(HrvParams, person.age_group), person.sex))
    THEN DrawsToHrv
    ELSE -1

\* whether the loop body raises for this day
DayRaises(person, start_date, day_offset, rng) ==
    RaisesAfter(person, start_date, day_offset, rng) >= 0

\* one iteration of the loop: the record appended
DayRecord(person, start_date, day_offset, rng) ==
    LET current_date == CurrentDate(start_date, day_offset)
        day_of_week == Weekday(current_date)
        sleep_hours == GetSleepDuration(person, day_of_week, NpZ(rng, 0))
        sleep_stages == GetSleepStages(sleep_hours, NpZ(rng, 1), NpZ(rng, 2), NpZ(rng, 3))
        daily_steps == GetDailySteps(person, day_of_week, NpZ(rng, 4))
    IN  [person_id |-> <<"synthetic", person.person_id>>,
         date |-> Strftime(current_date),
         age_group |-> person.age_group,
         sex |-> person.sex,
         activity_level |-> person.activity_level,
         sleep_duration_hours |-> PyRound(sleep_hours, 1000),
         deep_sleep_minutes |-> PyRound(sleep_stages.deep_minutes, 10000),
         rem_sleep_minutes |-> PyRound(sleep_stages.rem_minutes, 10000),
         core_sleep_minutes |-> PyRound(sleep_stages.core_minutes, 10000),
         awake_minutes |-> PyRound(sleep_stages.awake_minutes, 10000),
         daily_steps |-> daily_steps,
         active_calories |-> PyRound(GetActiveCalories(person, day_of_week, NpZ(rng, 5)), 1000),
         distance_km |-> PyRound(GetDistance(person, daily_steps, NpU(rng, 6)), 100000),
         respiratory_rate |-> PyRound(GetRespiratoryRate(NpZ(rng, 7)), 1),
         spo2 |-> PyRound(GetSpo2(NpZ(rng, 8)), 1),
         resting_heart_rate |-> PyRound(GetRestingHr(person, 7, NpZ(rng, 9)), 1000),
         hrv_sdnn |-> PyRound(GetHrv(person, 3, NpZ(rng, 10)), 1000),
         hourly_samples |->
            [j \in 1..Len(HourlyHours) |->
                [hour |-> HourlyHours[j],
                 heart_rate |-> PyRound(GetRestingHr(person, HourlyHours[j],
                                                     NpZ(rng, 11 + 2 * (j - 1))), 1000),
                 hrv |-> PyRound(GetHrv(person, HourlyHours[j],
                                        NpZ(rng, 12 + 2 * (j - 1))), 1000)]]]

\* the person after one iteration of the loop: the get_* methods read
\* self.age_group, self.sex, self.activity_level and the four offsets and
\* assign no attribute
AfterDayRedrawingOffset(person, start_date, day_offset, rng) ==
    [person EXCEPT !.hrv_offset = Normal(0, 15, NpZ(rng, 10))]
AfterDay(person, start_date, day_offset, rng) == person

\* the loop from day_offset on: the records, the person and the generator
\* after the call, and whether the call raised (its records are then lost
\* with its frame)
RECURSIVE PersonDataFrom(_, _, _, _, _, _)
PersonDataFrom(person, start_date, days, day_offset, rng, records) ==
    IF day_offset >= days
    THEN [raised |-> FALSE, records |-> records, np_rng |-> rng, person |-> person]
    ELSE IF DayRaises(person, start_date, day_offset, rng)
    THEN [raised |-> TRUE, records |-> <<>>, person |-> person,
          np_rng |-> NpSkip(rng, RaisesAfter(person, start_date, day_offset, rng))]
    ELSE PersonDataFrom(AfterDay(person, start_date, day_offset, rng),
                        start_date, days, day_offset + 1,
                        NpSkip(rng, DrawsPerDay),
                        Append(records, DayRecord(person, start_date, day_offset, rng)))

GeneratePersonDataFromSecondDay(person, start_date, days, rng) ==
    PersonDataFrom(person, start_date, days, 1, rng, <<>>)
GeneratePersonData(person, start_date, days, rng) ==
    PersonDataFrom(person, start_date, days, 0, rng, <<>>)
-----------------------------------------------------------------------------
(* compute_population_baselines *)

None == [none |-> TRUE]
IsNone(x) == DOMAIN x = {"none"}

Metrics ==
    <<"sleep_duration_hours", "deep_sleep_minutes", "rem_sleep_minutes",
      "core_sleep_minutes", "daily_steps", "active_calories", "distance_km",
      "respiratory_rate", "spo2", "resting_heart_rate", "hrv_sdnn">>

Range(seq) == {seq[i] : i \in DOMAIN seq}

\* series.dropna()
DropNa(s) == SelectSeq(s, LAMBDA x : x # NaN)

\* the sample in ascending order, as np.percentile and np.median arrange it
Unsorted(s) == s
Sorted(s) == SortSeq(s, LAMBDA a, b : a < b)

RECURSIVE SumSeq(_)
SumSeq(s) == IF s = <<>> THEN 0 ELSE Head(s) + SumSeq(Tail(s))

\* the largest r with r * r <= x, for 0 <= x
RECURSIVE IsqrtBetween(_, _, _)
IsqrtBetween(x, lo, hi) ==
    IF lo >= hi THEN lo
    ELSE LET mid == (lo + hi + 1) \div 2
         IN  IF mid * mid <= x THEN IsqrtBetween(x, mid, hi)
             ELSE IsqrtBetween(x, lo, mid - 1)
Isqrt(x) == IsqrtBetween(x, 0, 46340)

\* np.percentile(s, q): linear interpolation between the order statistics at
\* index q/100 * (n - 1); the result in hundredths of the sample's unit
Percentile(s, q) ==
    LET sorted == Sorted(s)
        pos == q * (Len(s) - 1)
        lo == pos \div 100
        frac == pos % 100
    IN  IF frac = 0 THEN 100 * sorted[lo + 1]
        ELSE 100 * sorted[lo + 1] + frac * (sorted[lo + 2] - sorted[lo + 1])

\* np.median(s), in hundredths of the sample's unit
Median(s) ==
    LET sorted == Sorted(s)
        n == Len(s)
    IN  IF n % 2 = 1 THEN 100 * sorted[(n + 1) \div 2]
        ELSE 50 * (sorted[n \div 2] + sorted[n \div 2 + 1])

\* np.mean(s) in hundredths of the unit (to the hundredth below), np.std(s)
\* (population standard deviation) in the unit (to the unit below)
Mean(s) == (100 * SumSeq(s)) \div Len(s)
Std(s) ==
    LET m == SumSeq(s) \div Len(s)
    IN  Isqrt(SumSeq([i \in DOMAIN s |-> ((s[i] - m) * (s[i] - m)) \div Len(s)]))

SeqMin(s) == CHOOSE x \in Range(s) : \A y \in Range(s) : x <= y
SeqMax(s) == CHOOSE x \in Range(s) : \A y \in Range(s) : x >= y

\* the literal of `if len(s) < 5`
MinSamples == 5

\* stats(series)
StatsAboveThresholdOnly(series_) ==
    LET s == DropNa(series_)
    IN  IF Len(s) <= MinSamples THEN None
        ELSE [n |-> Len(s), mean |-> Mean(s), std |-> Std(s), median |-> Median(s),
              p5 |-> Percentile(s, 5), p10 |-> Percentile(s, 10),
              p25 |-> Percentile(s, 25), p75 |-> Percentile(s, 75),
              p90 |-> Percentile(s, 90), p95 |-> Percentile(s, 95),
              min |-> 100 * SeqMin(s), max |-> 100 * SeqMax(s)]
Stats(series_) ==
    LET s == DropNa(series_)
    IN  IF Len(s) < MinSamples THEN None
        ELSE [n |-> Len(s),
              mean |-> Mean(s),
              std |-> Std(s),
              median |-> Median(s),
              p5 |-> Percentile(s, 5),
              p10 |-> Percentile(s, 10),
              p25 |-> Percentile(s, 25),
              p75 |-> Percentile(s, 75),
              p90 |-> Percentile(s, 90),
              p95 |-> Percentile(s, 95),
              min |-> 100 * SeqMin(s),
              max |-> 100 * SeqMax(s)]

\* df.columns: the union of the records' keys
Columns(data) == UNION {DOMAIN data[i] : i \in DOMAIN data}

\* df[df[key] == value]
Subset(data, key, value) == SelectSeq(data, LAMBDA r : r[key] = value)

\* subset[metric]: a record without the key holds NaN
Column(data, metric) ==
    [i \in DOMAIN data |-> IF metric \in DOMAIN data[i] THEN data[i][metric] ELSE NaN]

\* df[key].unique()
Unique(data, key) == {data[i][key] : i \in DOMAIN data}

MetricsIn(data) == {m \in Range(Metrics) : m \in Columns(data)}

\* the dict a loop fills with `baselines[...][metric] = stats(...)`
StatsOfAll(data) == [m \in MetricsIn(data) |-> Stats(Column(data, m))]

\* the dict a loop fills under `if s:`
StatsOfPresent(data) ==
    LET all == StatsOfAll(data)
    IN  [m \in {x \in DOMAIN all : ~IsNone(all[x])} |-> all[m]]

\* str(hour)
DigitStr(d) == <<"0", "1", "2", "3", "4", "5", "6", "7", "8", "9">>[d + 1]
Str(h) == IF h < 10 THEN DigitStr(h) ELSE DigitStr(h \div 10) \o DigitStr(h % 10)

\* hourly_data[key][hour]: the samples tagged hour, in record order
RECURSIVE HourlyValuesOfAllHours(_, _, _)
HourlyValuesOfAllHours(data, key, hour) ==
    IF data = <<>> THEN <<>>
    ELSE LET samples == IF "hourly_samples" \in DOMAIN Head(data)
                        THEN Head(data).hourly_samples ELSE <<>>
         IN  [i \in DOMAIN samples |-> samples[i][key]]
                \o HourlyValuesOfAllHours(Tail(data), key, hour)
RECURSIVE HourlyValues(_, _, _)
HourlyValues(data, key, hour) ==
    IF data = <<>> THEN <<>>
    ELSE LET samples == IF "hourly_samples" \in DOMAIN Head(data)
                        THEN Head(data).hourly_samples ELSE <<>>
             tagged == SelectSeq(samples, LAMBDA x : x.hour = hour)
         IN  [i \in DOMAIN tagged |-> tagged[i][key]] \o HourlyValues(Tail(data), key, hour)

HoursIn(data) ==
    UNION { {r.hourly_samples[j].hour : j \in DOMAIN r.hourly_samples} :
            r \in {x \in Range(data) : "hourly_samples" \in DOMAIN x} }

HourKeys(data) == {Str(h) : h \in HoursIn(data)}
HourOfKey(data, k) == CHOOSE h \in HoursIn(data) : Str(h) = k

\* the caller's list after compute_population_baselines returned: the
\* DataFrame is built from copies of the values, and the hourly loop reads
\* each record with record.get("hourly_samples", []) and sample[key]
RecordsAfterPoppingSamples(data) ==
    [i \in DOMAIN data |->
        [k \in DOMAIN data[i] \ {"hourly_samples"} |-> data[i][k]]]
RecordsAfterBaselines(data) == data

ComputePopulationBaselines(data) ==
    [global |-> StatsOfAll(data),
     by_sex |-> [sex \in Range(Sexes) |-> StatsOfPresent(Subset(data, "sex", sex))],
     by_age_group |->
        [a \in Unique(data, "age_group") |-> StatsOfPresent(Subset(data, "age_group", a))],
     by_activity_level |->
        [l \in Unique(data, "activity_level") |->
            StatsOfPresent(Subset(data, "activity_level", l))],
     by_hour |->
        [key \in {"heart_rate", "hrv"} |->
            [k \in HourKeys(data) |-> Stats(HourlyValues(data, key, HourOfKey(data, k)))]]]
-----------------------------------------------------------------------------
(* main() of generate_synthetic_healthkit.py *)

\* the variables of the other programs modelled here
driverVars == <<runs>>
statsVars == <<series, entry, config, nhanes>>
orderVars == <<seed, cohort, out, passes>>
cgmVars == <<sim_step, total_steps, current_time, readings, sim_args>>
datasetVars == <<classified, dataset_args, selected_patients, all_readings,
                 patient_summaries, dataset>>

\* age_group = age_groups[i % len(age_groups)]; sex = "male" if i % 2 == 0 else "female"
MainAgeGroup(i) == AgeGroups[(i % Len(AgeGroups)) + 1]
MainSexAllMale(i) == "male"
MainSex(i) == IF i % 2 = 0 THEN "male" ELSE "female"

\* for i in range(num_people): one VirtualPerson, its age group and sex set
\* from i, its activity level left to __init__
CreatePerson ==
    /\ pc = "create"
    /\ LET i == Len(people)
           age_group == MainAgeGroup(i)
           sex == MainSex(i)
           made == VirtualPersonInit(i, age_group, sex, NoneArg, np_rng, py_rng)
       IN  /\ people' = Append(people, made.person)
           /\ np_rng' = made.np_rng
           /\ py_rng' = made.py_rng
           /\ pc' = IF i + 1 = num_people THEN "generate" ELSE "create"
    /\ UNCHANGED <<num_people, days_per_person, all_data, gen_i, baselines,
                   results, clock, driverVars, statsVars, orderVars, cgmVars, datasetVars>>

\* the generation loop with the call wrapped in try/except: continue
GeneratePersonSkippingFailed ==
    /\ pc = "generate"
    /\ LET got == GeneratePersonData(people[gen_i + 1], StartDate, days_per_person, np_rng)
       IN  /\ np_rng' = got.np_rng
           /\ people' = [people EXCEPT ![gen_i + 1] = got.person]
           /\ all_data' = all_data \o got.records
           /\ gen_i' = gen_i + 1
           /\ pc' = IF gen_i + 1 = Len(people) THEN "baselines" ELSE "generate"
    /\ UNCHANGED <<num_people, days_per_person, baselines, results,
                   py_rng, clock, driverVars, statsVars, orderVars, cgmVars, datasetVars>>

\* for i, person in enumerate(people): all_data.extend(generate_person_data(...));
\* an exception leaves main() with nothing computed or written
GeneratePerson ==
    /\ pc = "generate"
    /\ LET got == GeneratePersonData(people[gen_i + 1], StartDate, days_per_person, np_rng)
       IN  /\ np_rng' = got.np_rng
           /\ people' = [people EXCEPT ![gen_i + 1] = got.person]
           /\ IF got.raised
              THEN /\ pc' = "raised"
                   /\ UNCHANGED <<all_data, gen_i>>
              ELSE /\ all_data' = all_data \o got.records
                   /\ gen_i' = gen_i + 1
                   /\ pc' = IF gen_i + 1 = Len(people) THEN "baselines" ELSE "generate"
    /\ UNCHANGED <<num_people, days_per_person, baselines, results,
                   py_rng, clock, driverVars, statsVars, orderVars, cgmVars, datasetVars>>

\* baselines = compute_population_baselines(all_data)
ComputeBaselines ==
    /\ pc = "baselines"
    /\ baselines' = ComputePopulationBaselines(all_data)
    /\ all_data' = RecordsAfterBaselines(all_data)
    /\ pc' = "save"
    /\ UNCHANGED <<num_people, days_per_person, people, gen_i, results,
                   np_rng, py_rng, clock, driverVars, statsVars, orderVars, cgmVars, datasetVars>>

\* the results dict and the two json.dump calls
SaveResults ==
    /\ pc = "save"
    /\ results' = [generated_at |-> clock,
                   parameters |-> [num_people |-> num_people,
                                   days_per_person |-> days_per_person,
                                   start_date |-> Strftime(StartDate)],
                   total_records |-> Len(all_data),
                   baselines_saved |-> TRUE,
                   data_saved |-> TRUE]
    /\ pc' = "done"
    /\ UNCHANGED <<num_people, days_per_person, people, all_data, gen_i, baselines,
                   np_rng, py_rng, clock, driverVars, statsVars, orderVars, cgmVars, datasetVars>>

Init ==
    /\ pc = "create"
    /\ num_people \in 1..MaxPeople
    /\ days_per_person \in 1..MaxDays
    /\ num_people * days_per_person <= MaxRecords
    /\ people = <<>>
    /\ all_data = <<>>
    /\ gen_i = 0
    /\ baselines = None
    /\ results = None
    /\ np_rng \in NpSeeds({"normal", "nan"})
    /\ py_rng \in PySeeds
    /\ clock = 0
    /\ runs = <<>>
    /\ series = <<>>
    /\ entry = None
    /\ config = None
    /\ nhanes = None
    /\ seed = None
    /\ cohort = <<>>
    /\ out = <<>>
    /\ passes = <<>>
    /\ sim_step = 0
    /\ total_steps = 0
    /\ current_time = 0
    /\ readings = <<>>
    /\ sim_args = None
    /\ classified = None
    /\ dataset_args = None
    /\ selected_patients = <<>>
    /\ all_readings = <<>>
    /\ patient_summaries = <<>>
    /\ dataset = None

Next ==
    \/ CreatePerson
    \/ GeneratePerson
    \/ ComputeBaselines
    \/ SaveResults

Spec == Init /\ [][Next]_vars
-----------------------------------------------------------------------------
(* Properties of main(): the cohort, the record set, the baseline tree *)

Generated == pc \in {"baselines", "save", "done"}
Computed == pc \in {"save", "done"}

\* the people in an (age group, sex) cell
CellPeople(a, x) ==
    {i \in DOMAIN people : people[i].age_group = a /\ people[i].sex = x}

\* C1: once the cohort is built with count >= 12 (6 age bands x 2 sexes), each
\* of the 12 (age band, sex) cells holds at least one entity.
C1_EveryCellCovered ==
    (pc # "create" /\ num_people >= Len(AgeGroups) * Len(Sexes))
        => \A a \in Range(AgeGroups), x \in Range(Sexes) : CellPeople(a, x) # {}

\* the records of a partition that carry a value for a metric
Backing(key, value, metric) ==
    {i \in DOMAIN all_data : all_data[i][key] = value /\ all_data[i][metric] # NaN}
BackingGlobal(metric) == {i \in DOMAIN all_data : all_data[i][metric] # NaN}

\* the hour-tagged samples behind a by_hour cell: (record, sample) pairs
BackingHour(key, hour) ==
    {p \in (DOMAIN all_data) \X (1..Len(HourlyHours)) :
        /\ all_data[p[1]].hourly_samples[p[2]].hour = hour
        /\ all_data[p[1]].hourly_samples[p[2]][key] # NaN}

\* every statistics entry of the tree (a dict holding n)
FactorCuts == {"by_sex", "by_age_group", "by_activity_level"}
EmittedEntries ==
    {baselines.global[m] : m \in {x \in DOMAIN baselines.global : ~IsNone(baselines.global[x])}}
    \cup UNION { UNION { {baselines[c][k][m] : m \in DOMAIN baselines[c][k]}
                         : k \in DOMAIN baselines[c] } : c \in FactorCuts }
    \cup UNION { {baselines.by_hour[key][k] :
                    k \in {x \in DOMAIN baselines.by_hour[key] :
                              ~IsNone(baselines.by_hour[key][x])}}
                 : key \in DOMAIN baselines.by_hour }

EntryIffBacked(cell, metric, backing) ==
    IF Cardinality(backing) >= 5
    THEN metric \in DOMAIN cell /\ ~IsNone(cell[metric])
         /\ cell[metric].n = Cardinality(backing)
    ELSE metric \notin DOMAIN cell \/ IsNone(cell[metric])

C3_BelowThresholdOmitted ==
    Computed =>
        /\ \A m \in DOMAIN baselines.global : ~IsNone(baselines.global[m])
        /\ \A c \in FactorCuts : \A k \in DOMAIN baselines[c] : DOMAIN baselines[c][k] # {}
        /\ \A key \in DOMAIN baselines.by_hour :
              \A k \in DOMAIN baselines.by_hour[key] : ~IsNone(baselines.by_hour[key][k])

\* the four stored stage durations added up, and the stored total sleep
\* (sleep_duration_hours x 60), both in tenths of a minute
StoredStageSum(r) ==
    r.deep_sleep_minutes + r.rem_sleep_minutes + r.core_sleep_minutes + r.awake_minutes
StoredTotalSleep(r) == 6 * r.sleep_duration_hours
Abs(x) == IF x < 0 THEN -x ELSE x

C8_OneRecordPerEntityAndDate ==
    /\ pc = "generate" => Len(all_data) = gen_i * days_per_person
    /\ Generated =>
        /\ Len(all_data) = num_people * days_per_person
        /\ \A i \in 0..(num_people - 1), d \in 0..(days_per_person - 1) :
              LET r == all_data[i * days_per_person + d + 1]
              IN  /\ r.person_id = <<"synthetic", i>>
                  /\ r.date = Strftime(StartDate + d)

\* 5 entities over 7 days: 35 records
C8_Witness ==
    pc = "done" /\ num_people = 5 /\ days_per_person = 7 /\ Len(all_data) = 35

\* C9: for 5 entities x 7 days, by_sex holds exactly the keys male and female,
\* each with a non-empty metric map.
C9_BySexBothKeysNonEmpty ==
    (Computed /\ num_people = 5 /\ days_per_person = 7) =>
        /\ DOMAIN baselines.by_sex = {"male", "female"}
        /\ \A x \in DOMAIN baselines.by_sex : DOMAIN baselines.by_sex[x] # {}

C9_Witness ==
    /\ pc = "done" /\ num_people = 5 /\ days_per_person = 7
    /\ baselines.by_sex["female"]["hrv_sdnn"].n = 14
    /\ baselines.by_sex["male"]["hrv_sdnn"].n = 21
-----------------------------------------------------------------------------
(* generate_person_data called twice on one entity by a driver that may put   *)
(* np.random back to the state the first call started from                   *)
(* (np.random.get_state / set_state), under every stream of draws            *)

genVars == <<num_people, days_per_person, all_data, gen_i, baselines, results>>

\* person = VirtualPerson(0, age_group, sex, activity_level)
NewPerson(age_group, sex, activity_level) ==
    /\ pc = "driver"
    /\ people = <<>>
    /\ LET made == VirtualPersonInit(0, age_group, sex, activity_level, np_rng, py_rng)
       IN  /\ people' = <<made.person>>
           /\ np_rng' = made.np_rng
           /\ py_rng' = made.py_rng
    /\ UNCHANGED <<pc, genVars, clock, runs, statsVars, orderVars, cgmVars, datasetVars>>

\* generate_person_data(person, start_date, days); the call is kept with the
\* generator state it started from
RunGenerate(days) ==
    /\ pc = "driver"
    /\ people # <<>>
    /\ Len(runs) < 2
    /\ LET got == GeneratePersonData(people[1], StartDate, days, np_rng)
       IN  /\ runs' = Append(runs, [person_id |-> people[1].person_id,
                                    person |-> people[1],
                                    start_date |-> StartDate,
                                    days |-> days,
                                    np_state |-> np_rng,
                                    raised |-> got.raised,
                                    records |-> got.records])
           /\ np_rng' = got.np_rng
           /\ people' = <<got.person>>
    /\ UNCHANGED <<pc, genVars, py_rng, clock, statsVars, orderVars, cgmVars, datasetVars>>

\* np.random.set_state(saved)
RestoreState ==
    /\ pc = "driver"
    /\ Len(runs) = 1
    /\ np_rng # runs[1].np_state
    /\ np_rng' = runs[1].np_state
    /\ UNCHANGED <<pc, genVars, people, py_rng, clock, runs, statsVars, orderVars, cgmVars, datasetVars>>

\* time passes
Tick ==
    /\ pc = "driver"
    /\ clock < MaxClock
    /\ clock' = clock + 1
    /\ UNCHANGED <<pc, genVars, people, np_rng, py_rng, runs, statsVars, orderVars, cgmVars, datasetVars>>

InitGen ==
    /\ pc = "driver"
    /\ num_people = 1
    /\ days_per_person = 1
    /\ people = <<>>
    /\ all_data = <<>>
    /\ gen_i = 0
    /\ baselines = None
    /\ results = None
    /\ np_rng \in NpSeeds({"normal", "wide"})
    /\ py_rng = 0
    /\ clock = 0
    /\ runs = <<>>
    /\ series = <<>>
    /\ entry = None
    /\ config = None
    /\ nhanes = None
    /\ seed = None
    /\ cohort = <<>>
    /\ out = <<>>
    /\ passes = <<>>
    /\ sim_step = 0
    /\ total_steps = 0
    /\ current_time = 0
    /\ readings = <<>>
    /\ sim_args = None
    /\ classified = None
    /\ dataset_args = None
    /\ selected_patients = <<>>
    /\ all_readings = <<>>
    /\ patient_summaries = <<>>
    /\ dataset = None

\* the strata a caller may pass: the declared ones and one more of each kind
CallerAgeGroups == Range(AgeGroups) \cup {"80+"}
CallerSexes == Range(Sexes) \cup {"other"}
CallerActivityLevels == Range(ActivityLevels) \cup {"elite"}

NextGen ==
    \/ \E a \in CallerAgeGroups, x \in CallerSexes, l \in CallerActivityLevels :
          NewPerson(a, x, l)
    \/ \E days \in 1..MaxRunDays : RunGenerate(days)
    \/ RestoreState
    \/ Tick

SpecGen == InitGen /\ [][NextGen]_vars

\* every record a call returned
RunRecords == UNION {Range(runs[i].records) : i \in DOMAIN runs}

Within(x, lo, hi) == FGe(x, lo) /\ FLe(x, hi)

\* C4: in every record, whatever the traits and the draws (extreme and
\* non-finite ones included), resting_heart_rate and every hourly heart_rate
\* lie in [40, 100], sleep_duration_hours in [3, 12], respiratory_rate in
\* [8, 22], spo2 in [94, 100], and hrv_sdnn >= 10, daily_steps >= 500,
\* active_calories >= 50.
C4_ClippedMetricsInRange ==
    \A r \in RunRecords :
        /\ Within(r.resting_heart_rate, 400, 1000)
        /\ \A j \in DOMAIN r.hourly_samples : Within(r.hourly_samples[j].heart_rate, 400, 1000)
        /\ Within(r.sleep_duration_hours, 300, 1200)
        /\ Within(r.respiratory_rate, 80, 220)
        /\ Within(r.spo2, 940, 1000)
        /\ FGe(r.hrv_sdnn, 100)
        /\ FGe(r.daily_steps, 500)
        /\ FGe(r.active_calories, 500)

\* a first-day record whose hrv draw was NaN and whose spo2 draw was extreme,
\* both clipped to a bound
C4_Witness ==
    \E i \in DOMAIN runs :
        /\ runs[i].records # <<>>
        /\ NpZ(runs[i].np_state, 10) = NaN
        /\ runs[i].records[1].hrv_sdnn = 100
        /\ NpZ(runs[i].np_state, 8) \in {20, -20, PInf, NInf}
        /\ runs[i].records[1].spo2 \in {940, 1000}

-----------------------------------------------------------------------------
(* fetch_nhanes_biomarkers.py: the parametric path.  Every quantity of this  *)
(* path is in thousandths of the biomarker's unit.                           *)

\* a by_age dict from the six distributions in AGE_GROUPS order
ByAge(dists) == [a \in Range(AgeGroups) |->
                    dists[CHOOSE i \in 1..Len(AgeGroups) : AgeGroups[i] = a]]

BiomarkerDistributions ==
    [total_cholesterol |->
        [unit |-> "mg/dL",
         global |-> [mean |-> 191000, std |-> 41000, min |-> 100000, max |-> 350000],
         by_sex |-> [male |-> [mean |-> 189000, std |-> 42000], female |-> [mean |-> 193000, std |-> 40000]],
         by_age |-> ByAge(<<[mean |-> 173000, std |-> 34000], [mean |-> 188000, std |-> 38000], [mean |-> 201000, std |-> 42000], [mean |-> 207000, std |-> 44000], [mean |-> 199000, std |-> 42000], [mean |-> 193000, std |-> 40000]>>)],
     hdl_cholesterol |->
        [unit |-> "mg/dL",
         global |-> [mean |-> 54000, std |-> 16000, min |-> 20000, max |-> 100000],
         by_sex |-> [male |-> [mean |-> 47000, std |-> 13000], female |-> [mean |-> 58000, std |-> 15000]],
         by_age |-> ByAge(<<[mean |-> 52000, std |-> 14000], [mean |-> 51000, std |-> 14000], [mean |-> 53000, std |-> 15000], [mean |-> 55000, std |-> 16000], [mean |-> 57000, std |-> 17000], [mean |-> 56000, std |-> 16000]>>)],
     ldl_cholesterol |->
        [unit |-> "mg/dL",
         global |-> [mean |-> 112000, std |-> 35000, min |-> 40000, max |-> 250000],
         by_sex |-> [male |-> [mean |-> 116000, std |-> 36000], female |-> [mean |-> 109000, std |-> 34000]],
         by_age |-> ByAge(<<[mean |-> 97000, std |-> 28000], [mean |-> 111000, std |-> 33000], [mean |-> 121000, std |-> 37000], [mean |-> 122000, std |-> 38000], [mean |-> 114000, std |-> 36000], [mean |-> 109000, std |-> 34000]>>)],
     triglycerides |->
        [unit |-> "mg/dL",
         global |-> [mean |-> 132000, std |-> 90000, min |-> 40000, max |-> 500000],
         by_sex |-> [male |-> [mean |-> 145000, std |-> 100000], female |-> [mean |-> 120000, std |-> 75000]],
         by_age |-> ByAge(<<[mean |-> 98000, std |-> 60000], [mean |-> 124000, std |-> 80000], [mean |-> 147000, std |-> 95000], [mean |-> 150000, std |-> 100000], [mean |-> 138000, std |-> 85000], [mean |-> 125000, std |-> 70000]>>)],
     hba1c |->
        [unit |-> "%",
         global |-> [mean |-> 5500, std |-> 800, min |-> 4000, max |-> 12000],
         by_sex |-> [male |-> [mean |-> 5550, std |-> 850], female |-> [mean |-> 5480, std |-> 750]],
         by_age |-> ByAge(<<[mean |-> 5200, std |-> 400], [mean |-> 5300, std |-> 500], [mean |-> 5500, std |-> 700], [mean |-> 5700, std |-> 900], [mean |-> 5900, std |-> 1000], [mean |-> 5800, std |-> 900]>>)],
     fasting_glucose |->
        [unit |-> "mg/dL",
         global |-> [mean |-> 102000, std |-> 28000, min |-> 60000, max |-> 300000],
         by_sex |-> [male |-> [mean |-> 105000, std |-> 30000], female |-> [mean |-> 99000, std |-> 25000]],
         by_age |-> ByAge(<<[mean |-> 92000, std |-> 12000], [mean |-> 96000, std |-> 18000], [mean |-> 102000, std |-> 25000], [mean |-> 108000, std |-> 32000], [mean |-> 110000, std |-> 35000], [mean |-> 106000, std |-> 30000]>>)],
     crp |->
        [unit |-> "mg/L",
         global |-> [mean |-> 2100, std |-> 3500, min |-> 100, max |-> 30000],
         by_sex |-> [male |-> [mean |-> 1900, std |-> 3200], female |-> [mean |-> 2300, std |-> 3800]],
         by_age |-> ByAge(<<[mean |-> 1200, std |-> 2000], [mean |-> 1600, std |-> 2500], [mean |-> 2000, std |-> 3000], [mean |-> 2500, std |-> 4000], [mean |-> 3000, std |-> 4500], [mean |-> 3200, std |-> 5000]>>)],
     creatinine |->
        [unit |-> "mg/dL",
         global |-> [mean |-> 950, std |-> 250, min |-> 400, max |-> 2000],
         by_sex |-> [male |-> [mean |-> 1050, std |-> 220], female |-> [mean |-> 850, std |-> 180]],
         by_age |-> ByAge(<<[mean |-> 900, std |-> 180], [mean |-> 920, std |-> 200], [mean |-> 950, std |-> 220], [mean |-> 980, std |-> 250], [mean |-> 1020, std |-> 280], [mean |-> 1080, std |-> 320]>>)],
     wbc |->
        [unit |-> "1000 cells/uL",
         global |-> [mean |-> 7200, std |-> 2000, min |-> 3000, max |-> 15000],
         by_sex |-> [male |-> [mean |-> 6900, std |-> 1900], female |-> [mean |-> 7500, std |-> 2100]],
         by_age |-> ByAge(<<[mean |-> 7000, std |-> 1800], [mean |-> 7100, std |-> 1900], [mean |-> 7200, std |-> 2000], [mean |-> 7300, std |-> 2100], [mean |-> 7100, std |-> 2000], [mean |-> 6800, std |-> 1900]>>)],
     rbc |->
        [unit |-> "million cells/uL",
         global |-> [mean |-> 4800, std |-> 500, min |-> 3500, max |-> 6500],
         by_sex |-> [male |-> [mean |-> 5100, std |-> 450], female |-> [mean |-> 4500, std |-> 400]],
         by_age |-> ByAge(<<[mean |-> 4900, std |-> 500], [mean |-> 4850, std |-> 480], [mean |-> 4800, std |-> 480], [mean |-> 4750, std |-> 500], [mean |-> 4700, std |-> 520], [mean |-> 4600, std |-> 550]>>)],
     hemoglobin |->
        [unit |-> "g/dL",
         global |-> [mean |-> 14000, std |-> 1500, min |-> 10000, max |-> 18000],
         by_sex |-> [male |-> [mean |-> 15000, std |-> 1200], female |-> [mean |-> 13200, std |-> 1100]],
         by_age |-> ByAge(<<[mean |-> 14200, std |-> 1400], [mean |-> 14100, std |-> 1400], [mean |-> 14000, std |-> 1500], [mean |-> 13900, std |-> 1500], [mean |-> 13700, std |-> 1500], [mean |-> 13400, std |-> 1600]>>)],
     hematocrit |->
        [unit |-> "%",
         global |-> [mean |-> 42000, std |-> 4500, min |-> 30000, max |-> 55000],
         by_sex |-> [male |-> [mean |-> 44500, std |-> 3500], female |-> [mean |-> 39500, std |-> 3200]],
         by_age |-> ByAge(<<[mean |-> 42500, std |-> 4200], [mean |-> 42200, std |-> 4300], [mean |-> 42000, std |-> 4500], [mean |-> 41800, std |-> 4600], [mean |-> 41200, std |-> 4700], [mean |-> 40500, std |-> 4800]>>)],
     platelets |->
        [unit |-> "1000 cells/uL",
         global |-> [mean |-> 250000, std |-> 60000, min |-> 100000, max |-> 450000],
         by_sex |-> [male |-> [mean |-> 235000, std |-> 55000], female |-> [mean |-> 265000, std |-> 60000]],
         by_age |-> ByAge(<<[mean |-> 260000, std |-> 58000], [mean |-> 255000, std |-> 58000], [mean |-> 250000, std |-> 60000], [mean |-> 245000, std |-> 60000], [mean |-> 240000, std |-> 62000], [mean |-> 235000, std |-> 65000]>>)]]

\* a table whose biomarkers leave strata and bounds out: no by_sex, by_age,
\* min or max for marker_a (whose std is 0), one sex and one age group only
\* for marker_b
SparseDistributions ==
    [marker_a |-> [unit |-> "u", global |-> [mean |-> 5000, std |-> 0]],
     marker_b |->
        [unit |-> "u",
         global |-> [mean |-> 100000, std |-> 20000, min |-> 50000, max |-> 200000],
         by_sex |-> [male |-> [mean |-> 110000, std |-> 25000]],
         by_age |-> ("70+" :> [mean |-> 90000, std |-> 15000])]]

\* generate_percentiles(mean, std): round(mean + c * std, 3) for the normal
\* quantile coefficients c
Quantile(mean, std, c) == RoundHalfEven(mean * 1000 + c * std, 1000)
GeneratePercentilesP10Typo(mean, std) ==
    [p5 |-> Quantile(mean, std, -1645),
     p10 |-> Quantile(mean, std, -1828),
     p25 |-> Quantile(mean, std, -674),
     p50 |-> Quantile(mean, std, 0),
     p75 |-> Quantile(mean, std, 674),
     p90 |-> Quantile(mean, std, 1282),
     p95 |-> Quantile(mean, std, 1645)]
GeneratePercentiles(mean, std) ==
    [p5 |-> Quantile(mean, std, -1645),
     p10 |-> Quantile(mean, std, -1282),
     p25 |-> Quantile(mean, std, -674),
     p50 |-> Quantile(mean, std, 0),
     p75 |-> Quantile(mean, std, 674),
     p90 |-> Quantile(mean, std, 1282),
     p95 |-> Quantile(mean, std, 1645)]

\* dict.get(key, default)
GetDefaultOnly(d, key, default) == default
Get(d, key, default) == IF key \in DOMAIN d THEN d[key] ELSE default

\* config.get("by_sex", {}).get(sex, glob) and config.get("by_age", {}).get(age_group, glob)
SexDist(cfg, sex) == IF "by_sex" \in DOMAIN cfg THEN Get(cfg.by_sex, sex, cfg.global) ELSE cfg.global
AgeDist(cfg, age_group) ==
    IF "by_age" \in DOMAIN cfg THEN Get(cfg.by_age, age_group, cfg.global) ELSE cfg.global

\* {**fields, **percentiles}
WithPercentiles(fields, percentiles) == percentiles @@ fields

GlobalEntry(cfg) ==
    LET glob == cfg.global
    IN  WithPercentiles(
            [mean |-> glob.mean,
             std |-> glob.std,
             min |-> Get(glob, "min", glob.mean - 3 * glob.std),
             max |-> Get(glob, "max", glob.mean + 3 * glob.std),
             unit |-> cfg.unit,
             n |-> 5000],
            GeneratePercentiles(glob.mean, glob.std))

StratumEntry(dist, n) ==
    WithPercentiles([mean |-> dist.mean, std |-> dist.std, n |-> n],
                    GeneratePercentiles(dist.mean, dist.std))

\* the age x sex entry: the two strata's means and stds averaged, rounded to
\* 3 places
CombinedEntry(cfg, age_group, sex) ==
    LET combined_mean == (AgeDist(cfg, age_group).mean + SexDist(cfg, sex).mean) \div 2
        combined_std == (AgeDist(cfg, age_group).std + SexDist(cfg, sex).std) \div 2
    IN  WithPercentiles([mean |-> combined_mean, std |-> combined_std, n |-> 400],
                        GeneratePercentiles(combined_mean, combined_std))

\* generate_baselines(), for BIOMARKER_DISTRIBUTIONS = table
GenerateBaselines(table) ==
    [global |-> [b \in DOMAIN table |-> GlobalEntry(table[b])],
     by_sex |-> [sex \in Range(Sexes) |->
                    [b \in DOMAIN table |-> StratumEntry(SexDist(table[b], sex), 2500)]],
     by_age_group |->
        [a \in Range(AgeGroups) |->
            [b \in DOMAIN table |-> StratumEntry(AgeDist(table[b], a), 800)]],
     by_age_and_sex |->
        [a \in Range(AgeGroups) |->
            [sex \in Range(Sexes) |->
                [b \in DOMAIN table |-> CombinedEntry(table[b], a, sex)]]]]

-----------------------------------------------------------------------------
(* The two producers of baseline entries side by side: stats() over a sample *)
(* and generate_baselines() over a table of distributions                    *)

\* the values a sample is built from, in the sample's unit
SampleValues == {1, 2, 4, 7, NaN}
Tables == {BiomarkerDistributions, SparseDistributions}

\* the series grows by one value
PushValue(v) ==
    /\ pc = "stats"
    /\ IsNone(entry)
    /\ IsNone(nhanes)
    /\ Len(series) < MaxSeries
    /\ series' = Append(series, v)
    /\ UNCHANGED <<pc, num_people, days_per_person, people, all_data, gen_i, baselines,
                   results, np_rng, py_rng, clock, runs, entry, config, nhanes,
                   orderVars, cgmVars, datasetVars>>

\* entry = stats(series)
CallStats ==
    /\ pc = "stats"
    /\ IsNone(entry)
    /\ IsNone(nhanes)
    /\ ~IsNone(Stats(series))
    /\ entry' = Stats(series)
    /\ UNCHANGED <<pc, num_people, days_per_person, people, all_data, gen_i, baselines,
                   results, np_rng, py_rng, clock, runs, series, config, nhanes,
                   orderVars, cgmVars, datasetVars>>

\* nhanes = generate_baselines(), run on its own or after stats() returned
\* an entry for a sample of the least size that has one
CallGenerateBaselines ==
    /\ pc = "stats"
    /\ IsNone(nhanes)
    /\ series = <<>> \/ (~IsNone(entry) /\ Len(series) = MinSamples)
    /\ nhanes' = GenerateBaselines(config)
    /\ UNCHANGED <<pc, num_people, days_per_person, people, all_data, gen_i, baselines,
                   results, np_rng, py_rng, clock, runs, series, entry, config,
                   orderVars, cgmVars, datasetVars>>

InitStats ==
    /\ pc = "stats"
    /\ num_people = 1
    /\ days_per_person = 1
    /\ people = <<>>
    /\ all_data = <<>>
    /\ gen_i = 0
    /\ baselines = None
    /\ results = None
    /\ np_rng = [kind |-> "normal", pos |-> 0, stride |-> 1]
    /\ py_rng = 0
    /\ clock = 0
    /\ runs = <<>>
    /\ series = <<>>
    /\ entry = None
    /\ config \in Tables
    /\ nhanes = None
    /\ seed = None
    /\ cohort = <<>>
    /\ out = <<>>
    /\ passes = <<>>
    /\ sim_step = 0
    /\ total_steps = 0
    /\ current_time = 0
    /\ readings = <<>>
    /\ sim_args = None
    /\ classified = None
    /\ dataset_args = None
    /\ selected_patients = <<>>
    /\ all_readings = <<>>
    /\ patient_summaries = <<>>
    /\ dataset = None

NextStats ==
    \/ \E v \in SampleValues : PushValue(v)
    \/ CallStats
    \/ CallGenerateBaselines

SpecStats == InitStats /\ [][NextStats]_vars
\* every entry of a tree returned by generate_baselines
ParametricEntries(tree) ==
    {tree.global[b] : b \in DOMAIN tree.global}
    \cup UNION {{tree.by_sex[x][b] : b \in DOMAIN tree.by_sex[x]} : x \in DOMAIN tree.by_sex}
    \cup UNION {{tree.by_age_group[a][b] : b \in DOMAIN tree.by_age_group[a]}
                : a \in DOMAIN tree.by_age_group}
    \cup UNION {UNION {{tree.by_age_and_sex[a][x][b] : b \in DOMAIN tree.by_age_and_sex[a][x]}
                       : x \in DOMAIN tree.by_age_and_sex[a]}
                : a \in DOMAIN tree.by_age_and_sex}

NhanesEntries == IF IsNone(nhanes) THEN {} ELSE ParametricEntries(nhanes)
StatsEntries == IF IsNone(entry) THEN {} ELSE {entry}

\* C7: in every entry of either path the percentiles are ordered
\* p5 <= p10 <= p25 <= median (p50) <= p75 <= p90 <= p95.
C7_PercentilesOrdered ==
    /\ \A e \in StatsEntries :
          /\ e.p5 <= e.p10 /\ e.p10 <= e.p25 /\ e.p25 <= e.median
          /\ e.median <= e.p75 /\ e.p75 <= e.p90 /\ e.p90 <= e.p95
    /\ \A e \in NhanesEntries :
          /\ e.p5 <= e.p10 /\ e.p10 <= e.p25 /\ e.p25 <= e.p50
          /\ e.p50 <= e.p75 /\ e.p75 <= e.p90 /\ e.p90 <= e.p95

\* an empirical entry over a sample given out of order, with distinct
\* percentiles, beside a parametric tree holding a zero-spread entry and a
\* strictly ordered one
C7_Witness ==
    /\ ~IsNone(entry)
    /\ series # Sorted(series)
    /\ entry.p5 < entry.p25 /\ entry.p25 < entry.median /\ entry.median < entry.p95
    /\ \E e \in NhanesEntries : e.std = 0 /\ e.p5 = e.p95
    /\ \E e \in NhanesEntries : e.p5 < e.p10 /\ e.p10 < e.p25 /\ e.p25 < e.p50

\* C10: every entry either path emits, in every cross-cut, carries the same
\* set of field names.
C10_IdenticalShape ==
    \A e1, e2 \in StatsEntries \cup NhanesEntries : DOMAIN e1 = DOMAIN e2

-----------------------------------------------------------------------------
(* The cohort of main() created and generated twice from the same seeding of  *)
(* np.random and random: a first pass in the order of main(), a second pass   *)
(* in any order and interleaving                                              *)

MaxOrderPeople == 2

ids == 0..(num_people - 1)

\* people.append(VirtualPerson(i, age_group=..., sex=...)) for one i
OrderCreate(i) ==
    /\ pc = "order"
    /\ i \in ids \ DOMAIN cohort
    /\ Len(passes) = 0 => i = Cardinality(DOMAIN cohort)
    /\ LET new == VirtualPersonInit(i, MainAgeGroup(i), MainSex(i), NoneArg, np_rng, py_rng)
       IN  /\ cohort' = cohort @@ (i :> new.person)
           /\ np_rng' = new.np_rng
           /\ py_rng' = new.py_rng
    /\ UNCHANGED <<pc, genVars, people, clock, runs, statsVars, seed, out, passes, cgmVars, datasetVars>>

\* generate_person_data(person, start_date, days_per_person) for one created
\* person
OrderGenerate(i) ==
    /\ pc = "order"
    /\ i \in DOMAIN cohort \ DOMAIN out
    /\ Len(passes) = 0 => (DOMAIN cohort = ids /\ i = Cardinality(DOMAIN out))
    /\ LET got == GeneratePersonData(cohort[i], StartDate, days_per_person, np_rng)
       IN  /\ out' = out @@ (i :> got.records)
           /\ cohort' = [cohort EXCEPT ![i] = got.person]
           /\ np_rng' = got.np_rng
    /\ UNCHANGED <<pc, genVars, people, py_rng, clock, runs, statsVars, seed,
                   passes, cgmVars, datasetVars>>

\* the pass is over; np.random.seed(s) and random.seed(s) with the seed the
\* first pass started from
NextPass ==
    /\ pc = "order"
    /\ DOMAIN out = ids
    /\ Len(passes) < 2
    /\ passes' = Append(passes, out)
    /\ cohort' = <<>>
    /\ out' = <<>>
    /\ np_rng' = seed.np
    /\ py_rng' = seed.py
    /\ UNCHANGED <<pc, genVars, people, clock, runs, statsVars, seed, cgmVars, datasetVars>>

InitOrder ==
    /\ pc = "order"
    /\ num_people \in 2..MaxOrderPeople
    /\ days_per_person \in 1..MaxRunDays
    /\ people = <<>>
    /\ all_data = <<>>
    /\ gen_i = 0
    /\ baselines = None
    /\ results = None
    /\ np_rng \in NpSeeds({"normal"})
    /\ py_rng \in PySeeds
    /\ clock = 0
    /\ runs = <<>>
    /\ series = <<>>
    /\ entry = None
    /\ config = None
    /\ nhanes = None
    /\ seed = [np |-> np_rng, py |-> py_rng]
    /\ cohort = <<>>
    /\ out = <<>>
    /\ passes = <<>>
    /\ sim_step = 0
    /\ total_steps = 0
    /\ current_time = 0
    /\ readings = <<>>
    /\ sim_args = None
    /\ classified = None
    /\ dataset_args = None
    /\ selected_patients = <<>>
    /\ all_readings = <<>>
    /\ patient_summaries = <<>>
    /\ dataset = None

NextOrder ==
    \/ \E i \in ids : OrderCreate(i)
    \/ \E i \in ids : OrderGenerate(i)
    \/ NextPass

SpecOrder == InitOrder /\ [][NextOrder]_vars

\* C11: for a fixed seed, the records of each entity are the same whatever the
\* order in which the entities of the cohort were created and generated.
C11_SameRecordsUnderEveryOrder ==
    Len(passes) = 2 => \A i \in ids : passes[1][i] = passes[2][i]
-----------------------------------------------------------------------------
(* Properties of generate_person_data for entities of any stratum *)

\* whether a stratum label of the person has no entry in a parameter table
\* that generate_person_data reads
StratumMissing(person) ==
    \/ person.age_group \notin DOMAIN SleepParams
    \/ person.age_group \notin DOMAIN HrvParams
    \/ person.sex \notin {"male", "female"}
    \/ person.activity_level \notin DOMAIN DailyStepsParams

\* C12: a call for an entity with a stratum that a parameter table lacks
\* raises: it returns no record, for that day or any other, and no record
\* built from a substituted distribution exists.
C12_MissingStratumAborts ==
    \A i \in DOMAIN runs :
        StratumMissing(runs[i].person) => (runs[i].raised /\ runs[i].records = <<>>)

\* two calls, on finite draws, that raised for an entity whose sex the hrv
\* table lacks while its age group and activity level are declared ones
C12_Witness ==
    /\ Len(runs) = 2
    /\ runs[1].raised /\ runs[2].raised
    /\ runs[1].person.sex = "other"
    /\ runs[1].person.age_group \in Range(AgeGroups)
    /\ runs[1].person.activity_level \in Range(ActivityLevels)
    /\ runs[1].np_state.kind = "normal"
-----------------------------------------------------------------------------
(* Properties of main() when generation aborts *)

\* C13: the baseline tree exists only once generation has completed for every
\* entity and every day; once generation has aborted, no tree is computed and
\* neither file is written.
C13_NoBaselinesUnlessGenerationCompleted ==
    /\ ~IsNone(baselines) =>
          /\ gen_i = num_people
          /\ Len(all_data) = num_people * days_per_person
    /\ ~IsNone(results) => ~IsNone(baselines)
    /\ pc = "raised" => (IsNone(baselines) /\ IsNone(results) /\ ~ENABLED Next)

\* generation aborted after the records of at least one entity were produced
C13_Witness ==
    pc = "raised" /\ gen_i >= 1 /\ all_data # <<>> /\ IsNone(baselines)
-----------------------------------------------------------------------------
(* Frame of the metric-generation calls *)

\* C14: once an entity is created, its four offsets and its stratum labels
\* (every attribute set by __init__) keep their values over every later step,
\* calls of generate_person_data over any number of days included.
C14_PersonFixedAfterCreation ==
    [][people # <<>> => people' = people]_vars

\* a two-day call has returned for an entity whose offsets are not zero
C14_Witness ==
    \E i \in DOMAIN runs :
        /\ runs[i].days = 2 /\ ~runs[i].raised
        /\ people[1] = runs[i].person
        /\ people[1].hrv_offset # 0 /\ people[1].activity_offset # 0
-----------------------------------------------------------------------------
(* Shape of the tree of compute_population_baselines *)

\* C15: the baseline tree holds every declared cross-cut: global, by sex, by
\* age group, by activity level, age group x sex, and by hour.
C15_EveryDeclaredCrossCut ==
    Computed =>
        {"global", "by_sex", "by_age_group", "by_activity_level", "by_age_and_sex",
         "by_hour"} \subseteq DOMAIN baselines

\* C16: in every record the four stage durations are non-negative (each stage
\* fraction is non-negative), for every combination of draws.
C16_StageMinutesNonNegative ==
    \A r \in RunRecords :
        /\ FGe(r.deep_sleep_minutes, 0)
        /\ FGe(r.rem_sleep_minutes, 0)
        /\ FGe(r.core_sleep_minutes, 0)
        /\ FGe(r.awake_minutes, 0)
-----------------------------------------------------------------------------
(* The hour-of-day cut *)

\* the values of key in the sub-samples tagged hour h, over the record set
Tagged(key, h) ==
    {r.hourly_samples[j][key] :
        r \in Range(all_data), j \in {k \in 1..Len(HourlyHours) : HourlyHours[k] = h}}

\* every record carries one sub-sample for each of the hours 7, 12, 18, 22
OneSamplePerHour ==
    \A r \in Range(all_data) :
        [j \in DOMAIN r.hourly_samples |-> r.hourly_samples[j].hour] = <<7, 12, 18, 22>>

HourCells == {"heart_rate", "hrv"} \X {7, 12, 18, 22}

\* C17 as stated: every record carries one sub-sample per hour and the by_hour
\* cell of each hour, for heart_rate and for hrv, has n equal to the number of
\* records.
C17_HourCellCountsEveryRecord ==
    Computed =>
        /\ OneSamplePerHour
        /\ \A c \in HourCells :
              /\ ~IsNone(baselines.by_hour[c[1]][Str(c[2])])
              /\ baselines.by_hour[c[1]][Str(c[2])].n = Len(all_data)

\* C17 (amended): every record carries one sub-sample per hour; by_hour has a
\* cell for each of the four hours; with at least five records the cell of
\* hour h has n equal to the number of records and its min and max are those
\* of the sub-samples tagged h; with fewer records the cell has no statistics.
C17_HourCellOverTaggedSamples ==
    Computed =>
        /\ OneSamplePerHour
        /\ \A key \in {"heart_rate", "hrv"} :
              DOMAIN baselines.by_hour[key] = {"7", "12", "18", "22"}
        /\ \A c \in HourCells :
              LET cell == baselines.by_hour[c[1]][Str(c[2])]
              IN  IF Len(all_data) < 5 THEN IsNone(cell)
                  ELSE /\ ~IsNone(cell)
                       /\ cell.n = Len(all_data)
                       /\ \E v \in Tagged(c[1], c[2]) : cell.min = 100 * v
                       /\ \E v \in Tagged(c[1], c[2]) : cell.max = 100 * v
                       /\ \A v \in Tagged(c[1], c[2]) :
                             cell.min <= 100 * v /\ 100 * v <= cell.max

\* a tree over 10 records whose 7 o'clock and 22 o'clock heart-rate cells differ
C17_Witness ==
    /\ Computed
    /\ Len(all_data) = 10
    /\ baselines.by_hour["heart_rate"]["7"].n = 10
    /\ baselines.by_hour["heart_rate"]["7"].max # baselines.by_hour["heart_rate"]["22"].max
-----------------------------------------------------------------------------
(* Fallback to the global distribution on the parametric path *)

\* the distribution the table declares for a stratum of a biomarker, the
\* global one where it declares none
Declared(cfg, cut, key) ==
    IF cut \in DOMAIN cfg /\ key \in DOMAIN cfg[cut] THEN cfg[cut][key] ELSE cfg.global

\* the entry is the one generate_baselines computes from distribution dist
ComputedFrom(e, dist) ==
    /\ e.mean = dist.mean
    /\ e.std = dist.std
    /\ e.p5 = Quantile(dist.mean, dist.std, -1645)
    /\ e.p50 = Quantile(dist.mean, dist.std, 0)
    /\ e.p95 = Quantile(dist.mean, dist.std, 1645)

\* C18: in the tree of generate_baselines, the entry of a sex or an age group
\* is computed from the stratum's own distribution where the table declares
\* one, and from the biomarker's global distribution where it declares none;
\* the age x sex entry averages the two distributions so chosen.
C18_StratumOrGlobalDistribution ==
    ~IsNone(nhanes) =>
        \A b \in DOMAIN config :
            /\ \A x \in Range(Sexes) :
                  ComputedFrom(nhanes.by_sex[x][b], Declared(config[b], "by_sex", x))
            /\ \A a \in Range(AgeGroups) :
                  ComputedFrom(nhanes.by_age_group[a][b], Declared(config[b], "by_age", a))
            /\ \A a \in Range(AgeGroups), x \in Range(Sexes) :
                  /\ nhanes.by_age_and_sex[a][x][b].mean =
                        (Declared(config[b], "by_age", a).mean
                            + Declared(config[b], "by_sex", x).mean) \div 2
                  /\ nhanes.by_age_and_sex[a][x][b].std =
                        (Declared(config[b], "by_age", a).std
                            + Declared(config[b], "by_sex", x).std) \div 2

\* a tree for a table that declares marker_b for males and for the age group
\* 70+ only: those entries differ from the global ones, the female and the
\* 18-29 entries are the global ones
C18_Witness ==
    /\ ~IsNone(nhanes)
    /\ "marker_b" \in DOMAIN config
    /\ nhanes.by_sex["male"]["marker_b"].mean = 110000
    /\ nhanes.by_sex["female"]["marker_b"].mean = nhanes.global["marker_b"].mean
    /\ nhanes.by_age_group["70+"]["marker_b"].mean = 90000
    /\ nhanes.by_age_group["18-29"]["marker_b"].mean = nhanes.global["marker_b"].mean
-----------------------------------------------------------------------------
(* Frame of compute_population_baselines *)

\* C19: the step that computes the baselines leaves the record list and every
\* record in it (hourly_samples included) as they were, and every statistics
\* entry of the tree it returns holds numbers only: no record, and no list of
\* sub-samples, of the record set is part of the tree.
C19_AggregatorReadsOnly ==
    [][pc = "baselines" =>
          /\ all_data' = all_data
          /\ \A e \in EmittedEntries' : \A f \in DOMAIN e : e[f] \in Int]_vars

\* a tree computed over 6 records that all still hold their four sub-samples
C19_Witness ==
    /\ Computed
    /\ Len(all_data) = 6
    /\ \A r \in Range(all_data) : Len(r.hourly_samples) = 4
    /\ EmittedEntries # {}
-----------------------------------------------------------------------------
(* run_simulation of generate_synthetic_cgm.py.  Times are minutes; day 0    *)
(* starts at the midnight before datetime.now().  Glucose is in tenths of    *)
(* a mg/dL.  The simulator (env.step) is an input of every step.             *)

MaxSimSteps == 4
MaxSimDays == 1

steps_per_day == 288

\* datetime.isoformat(): the date and the time of day
IsoFormat(t) == <<t \div 1440, (t % 1440) \div 60, t % 60>>

\* patient_name.split('#')[0], a patient name being <<type, number>>
PatientType(patient_name) == patient_name[1]

\* calculate_trend(readings, window = 3)
CalculateTrend(rs) ==
    IF Len(rs) < 3 THEN "stable"
    ELSE LET delta == rs[Len(rs)].glucose_mg_dl - rs[Len(rs) - 2].glucose_mg_dl
         IN  IF delta > 450 THEN "rising_fast"
             ELSE IF delta > 150 THEN "rising"
             ELSE IF delta < -450 THEN "falling_fast"
             ELSE IF delta < -150 THEN "falling"
             ELSE "stable"

\* what env.step(action) may return: a result without a CGM observation, or
\* one with a CGM value; done or not
CgmValues == {NaN, 0, 390, 1200, 4500}
StepResults ==
    [has_cgm : {FALSE}, done : BOOLEAN]
    \cup [has_cgm : {TRUE}, cgm : CgmValues, done : BOOLEAN]

\* the reading appended for glucose_value, noise added and clipped
Reading(glucose_value, noise) ==
    LET g == PyMax(400, PyMin(4000, FAdd(glucose_value, noise)))
    IN  [glucose_mg_dl |-> PyRound(g, 1),
         glucose_mmol_l |-> PyRound(g * 100000, 180182),
         timestamp |-> IsoFormat(current_time),
         patient_type |-> PatientType(sim_args.patient_name),
         scenario |-> sim_args.scenario_type,
         source |-> "simglucose_synthetic",
         trend |-> CalculateTrend(readings)]

\* one iteration of `for sim_step in range(total_steps)`, and the return that
\* follows the last one
SimStep(step_result) ==
    /\ pc = "sim"
    /\ sim_step < total_steps
    /\ sim_step + 1 < MaxSimSteps \/ (step_result.has_cgm /\ step_result.done)
    /\ sim_step' = sim_step + 1
    /\ IF ~step_result.has_cgm
       THEN \* continue
            /\ pc' = IF sim_step + 1 = total_steps THEN "returned" ELSE "sim"
            /\ UNCHANGED <<readings, current_time, py_rng>>
       ELSE /\ IF step_result.cgm # NaN /\ FGt(step_result.cgm, 0)
               THEN /\ readings' = Append(readings,
                                          Reading(step_result.cgm, 2 * PyG(py_rng, 0)))
                    /\ py_rng' = PyPos(py_rng, 1)
               ELSE UNCHANGED <<readings, py_rng>>
            /\ current_time' = current_time + 5
            /\ pc' = IF step_result.done \/ sim_step + 1 = total_steps
                     THEN "returned" ELSE "sim"
    /\ UNCHANGED <<num_people, days_per_person, people, all_data, gen_i, baselines,
                   results, np_rng, clock, runs, statsVars, orderVars, total_steps,
                   sim_args, datasetVars>>

\* a call with days = 0: the loop body never runs
SimReturnEmpty ==
    /\ pc = "sim"
    /\ sim_step = total_steps
    /\ pc' = "returned"
    /\ UNCHANGED <<num_people, days_per_person, people, all_data, gen_i, baselines,
                   results, np_rng, py_rng, clock, runs, statsVars, orderVars, cgmVars, datasetVars>>

Patients == {<<"adolescent", "001">>, <<"adult", "001">>}
SimNows == {600, 1435}

\* run_simulation up to the loop: start_time = datetime.now() - timedelta(days),
\* readings = [], total_steps = days * steps_per_day, current_time = start_time
InitCgm ==
    /\ pc = "sim"
    /\ num_people = 1
    /\ days_per_person = 1
    /\ people = <<>>
    /\ all_data = <<>>
    /\ gen_i = 0
    /\ baselines = None
    /\ results = None
    /\ np_rng = [kind |-> "normal", pos |-> 0, stride |-> 1]
    /\ py_rng \in PySeeds
    /\ clock \in SimNows
    /\ runs = <<>>
    /\ series = <<>>
    /\ entry = None
    /\ config = None
    /\ nhanes = None
    /\ seed = None
    /\ cohort = <<>>
    /\ out = <<>>
    /\ passes = <<>>
    /\ sim_args \in [patient_name : Patients, days : 0..MaxSimDays,
                     scenario_type : {"normal"}]
    /\ sim_step = 0
    /\ total_steps = sim_args.days * steps_per_day
    /\ current_time = clock - sim_args.days * 1440
    /\ readings = <<>>
    /\ classified = None
    /\ dataset_args = None
    /\ selected_patients = <<>>
    /\ all_readings = <<>>
    /\ patient_summaries = <<>>
    /\ dataset = None

NextCgm ==
    \/ \E step_result \in StepResults : SimStep(step_result)
    \/ SimReturnEmpty

SpecCgm == InitCgm /\ [][NextCgm]_vars

start_time == clock - sim_args.days * 1440

\* C20: the reading recorded at simulation step k carries the timestamp
\* start_time + 5k minutes, whatever the earlier steps produced.
C20_ReadingOfStepKAtFiveK ==
    [][Len(readings') > Len(readings) =>
          readings'[Len(readings')].timestamp = IsoFormat(start_time + 5 * sim_step)]_vars
-----------------------------------------------------------------------------
(* classify_glucose, generate_training_dataset and identify_patterns of       *)
(* generate_synthetic_cgm.py.  Glucose is in tenths of a mg/dL, a percentage  *)
(* in tenths of a percent.                                                    *)

MaxPatients == 2

PATIENTS ==
    << <<"adolescent", "001">>, <<"adolescent", "002">>, <<"adolescent", "003">>,
       <<"adolescent", "004">>, <<"adolescent", "005">>,
       <<"adult", "001">>, <<"adult", "002">>, <<"adult", "003">>,
       <<"adult", "004">>, <<"adult", "005">>,
       <<"child", "001">>, <<"child", "002">>, <<"child", "003">> >>

scenarios == <<"normal", "high_carb", "low_carb", "skipped_meals", "exercise_day">>

\* len(meals) in create_meal_scenario
MealCount(scenario_type) ==
    IF scenario_type = "normal" THEN 3
    ELSE IF scenario_type = "high_carb" THEN 6
    ELSE IF scenario_type = "low_carb" THEN 3
    ELSE IF scenario_type = "skipped_meals" THEN 2
    ELSE IF scenario_type = "exercise_day" THEN 4
    ELSE 3

\* the variates run_simulation draws from random before its loop: the seed, the
\* sensor, two for every meal, the basal rate
DrawsBeforeLoop(scenario_type) == 2 + 2 * MealCount(scenario_type) + 1

\* classify_glucose with `elif value <= 70` for the label 'hypo'
ClassifyGlucoseHypoInclusive(value) ==
    [is_hypo |-> FLt(value, 700),
     is_severe_hypo |-> FLt(value, 540),
     is_hyper |-> FGt(value, 1800),
     is_severe_hyper |-> FGt(value, 2500),
     is_in_range |-> FLe(700, value) /\ FLe(value, 1800),
     range_label |-> IF FLt(value, 540) THEN "severe_hypo"
                     ELSE IF FLe(value, 700) THEN "hypo"
                     ELSE IF FLe(value, 1800) THEN "normal"
                     ELSE IF FLe(value, 2500) THEN "hyper"
                     ELSE "severe_hyper"]

\* classify_glucose(value)
ClassifyGlucose(value) ==
    [is_hypo |-> FLt(value, 700),
     is_severe_hypo |-> FLt(value, 540),
     is_hyper |-> FGt(value, 1800),
     is_severe_hyper |-> FGt(value, 2500),
     is_in_range |-> FLe(700, value) /\ FLe(value, 1800),
     range_label |-> IF FLt(value, 540) THEN "severe_hypo"
                     ELSE IF FLt(value, 700) THEN "hypo"
                     ELSE IF FLe(value, 1800) THEN "normal"
                     ELSE IF FLe(value, 2500) THEN "hyper"
                     ELSE "severe_hyper"]

\* random.sample(population, k): k distinct members, k variates drawn
RandomSample(population, k, rng) ==
    [i \in 1..k |->
        population[((((PyU(rng, 0) * Len(population)) \div 100) + i - 1)
                    % Len(population)) + 1]]

\* the events appended for the readings that pass Test, in the order of the list
EventsAt(rs, Test(_), Event(_)) ==
    LET idx == SelectSeq([i \in 1..Len(rs) |-> i], Test)
    IN  [k \in 1..Len(idx) |-> Event(idx[k])]

\* events[:10]
FirstTen(events) == SubSeq(events, 1, IF Len(events) < 10 THEN Len(events) ELSE 10)

\* identify_patterns(readings); the list index i of the code is i - 1 here
IdentifyPatterns(rs) ==
    LET glucose(i) == rs[i].glucose_mg_dl
        hour(i) == rs[i].timestamp[2]
        hypo_events ==
            EventsAt(rs, LAMBDA i : glucose(i) < 700,
                     LAMBDA i : [timestamp |-> rs[i].timestamp, glucose |-> glucose(i),
                                 severity |-> IF glucose(i) < 540 THEN "severe"
                                              ELSE "moderate",
                                 hour |-> hour(i)])
        nocturnal_hypos ==
            EventsAt(rs, LAMBDA i : glucose(i) < 700 /\ 0 <= hour(i) /\ hour(i) <= 6,
                     LAMBDA i : [timestamp |-> rs[i].timestamp, glucose |-> glucose(i)])
        hyper_events ==
            EventsAt(rs, LAMBDA i : glucose(i) > 1800,
                     LAMBDA i : [timestamp |-> rs[i].timestamp, glucose |-> glucose(i),
                                 severity |-> IF glucose(i) > 2500 THEN "severe"
                                              ELSE "moderate",
                                 hour |-> hour(i)])
        dawn_phenomenon ==
            EventsAt(rs, LAMBDA i : 4 <= hour(i) /\ hour(i) <= 8 /\ glucose(i) > 1400,
                     LAMBDA i : [timestamp |-> rs[i].timestamp, glucose |-> glucose(i)])
        rapid_changes ==
            EventsAt(rs, LAMBDA i : i - 1 >= 3 /\ Abs(glucose(i) - glucose(i - 3)) > 300,
                     LAMBDA i : [timestamp |-> rs[i].timestamp, glucose |-> glucose(i),
                                 delta |-> Abs(glucose(i) - glucose(i - 3)),
                                 direction |-> IF glucose(i) > glucose(i - 3)
                                               THEN "rising" ELSE "falling"])
    IN  [hypo_count |-> Len(hypo_events),
         hyper_count |-> Len(hyper_events),
         rapid_change_count |-> Len(rapid_changes),
         dawn_phenomenon_count |-> Len(dawn_phenomenon),
         nocturnal_hypo_count |-> Len(nocturnal_hypos),
         sample_hypos |-> FirstTen(hypo_events),
         sample_hypers |-> FirstTen(hyper_events),
         sample_rapid_changes |-> FirstTen(rapid_changes)]

\* round(np.std(values), 1): the k nearest to sqrt(n * sum(v^2) - sum(v)^2) / n,
\* that is the largest k with ((2k - 1) * n)^2 <= 4 * (n * sum(v^2) - sum(v)^2)
RECURSIVE StdSearch(_, _, _, _)
StdSearch(lo, hi, n, d4) ==
    IF lo = hi THEN lo
    ELSE LET mid == (lo + hi + 1) \div 2
         IN  IF (2 * mid - 1) * (2 * mid - 1) * n * n <= d4
             THEN StdSearch(mid, hi, n, d4)
             ELSE StdSearch(lo, mid - 1, n, d4)

StdGlucose(values) ==
    LET n == Len(values)
        s == SumSeq(values)
        q == SumSeq([i \in DOMAIN values |-> values[i] * values[i]])
    IN  StdSearch(0, 2000, n, 4 * (n * q - s * s))

CountIf(values, Test(_)) == Len(SelectSeq(values, Test))

\* the summary appended for a patient; min() of an empty list raises ValueError
SummaryRaises(rs) == rs = <<>>
PatientSummary(patient, scenario, rs) ==
    LET glucose_values == [i \in DOMAIN rs |-> rs[i].glucose_mg_dl]
    IN  [patient |-> patient,
         scenario |-> scenario,
         readings_count |-> Len(rs),
         mean_glucose |-> RoundHalfEven(SumSeq(glucose_values), Len(glucose_values)),
         std_glucose |-> StdGlucose(glucose_values),
         min_glucose |-> SeqMin(glucose_values),
         max_glucose |-> SeqMax(glucose_values),
         time_in_range |->
             RoundHalfEven(CountIf(glucose_values, LAMBDA v : 700 <= v /\ v <= 1800)
                           * 1000, Len(glucose_values)),
         hypo_events |-> CountIf(glucose_values, LAMBDA v : v < 700),
         hyper_events |-> CountIf(glucose_values, LAMBDA v : v > 1800)]

\* the head of `for patient in selected_patients`: the scenario is chosen and
\* run_simulation is entered, up to its loop
StartSimulation ==
    /\ pc = "patient"
    /\ Len(patient_summaries) < Len(selected_patients)
    /\ LET patient == selected_patients[Len(patient_summaries) + 1]
           scenario == RandomChoice(scenarios, PyU(py_rng, 0))
       IN  /\ sim_args' = [patient_name |-> patient,
                           days |-> dataset_args.days_per_patient,
                           scenario_type |-> scenario]
           /\ py_rng' = PyPos(py_rng, 1 + DrawsBeforeLoop(scenario))
    /\ sim_step' = 0
    /\ total_steps' = dataset_args.days_per_patient * steps_per_day
    /\ current_time' = clock - dataset_args.days_per_patient * 1440
    /\ readings' = <<>>
    /\ pc' = "sim"
    /\ UNCHANGED <<num_people, days_per_person, people, all_data, gen_i, baselines,
                   results, np_rng, clock, runs, statsVars, orderVars, datasetVars>>

\* the rest of the loop body, from the return of run_simulation
CollectPatient ==
    /\ pc = "returned"
    /\ ~IsNone(dataset_args)
    /\ LET classified_readings ==
               [i \in DOMAIN readings |->
                   readings[i] @@ ClassifyGlucose(readings[i].glucose_mg_dl)]
       IN  /\ all_readings' = all_readings \o classified_readings
           /\ IF SummaryRaises(classified_readings)
              THEN /\ pc' = "raised"
                   /\ UNCHANGED patient_summaries
              ELSE /\ pc' = "patient"
                   /\ patient_summaries' =
                          Append(patient_summaries,
                                 PatientSummary(sim_args.patient_name,
                                                sim_args.scenario_type,
                                                classified_readings))
    /\ UNCHANGED <<num_people, days_per_person, people, all_data, gen_i, baselines,
                   results, np_rng, py_rng, clock, runs, statsVars, orderVars, cgmVars,
                   classified, dataset_args, selected_patients, dataset>>

\* after the loop: identify_patterns and the dataset returned
ReturnDataset ==
    /\ pc = "patient"
    /\ Len(patient_summaries) = Len(selected_patients)
    /\ dataset' = [generated_at |-> IsoFormat(clock),
                   total_readings |-> Len(all_readings),
                   patients_simulated |-> Len(selected_patients),
                   days_per_patient |-> dataset_args.days_per_patient,
                   patient_summaries |-> patient_summaries,
                   anomaly_patterns |-> IdentifyPatterns(all_readings),
                   readings |-> all_readings]
    /\ pc' = "dataset"
    /\ UNCHANGED <<num_people, days_per_person, people, all_data, gen_i, baselines,
                   results, np_rng, py_rng, clock, runs, statsVars, orderVars, cgmVars,
                   classified, dataset_args, selected_patients, all_readings,
                   patient_summaries>>

\* what env.step returns in the simulations of a dataset
DatasetStepResults == [has_cgm : {TRUE}, cgm : {NaN, 390, 4500}, done : BOOLEAN]

\* generate_training_dataset(num_patients, days_per_patient) after
\* selected_patients = random.sample(PATIENTS, min(num_patients, len(PATIENTS)))
InitDataset ==
    /\ pc = "patient"
    /\ num_people = 1
    /\ days_per_person = 1
    /\ people = <<>>
    /\ all_data = <<>>
    /\ gen_i = 0
    /\ baselines = None
    /\ results = None
    /\ np_rng = [kind |-> "normal", pos |-> 0, stride |-> 1]
    /\ clock \in SimNows
    /\ runs = <<>>
    /\ series = <<>>
    /\ entry = None
    /\ config = None
    /\ nhanes = None
    /\ seed = None
    /\ cohort = <<>>
    /\ out = <<>>
    /\ passes = <<>>
    /\ sim_args = None
    /\ sim_step = 0
    /\ total_steps = 0
    /\ current_time = 0
    /\ readings = <<>>
    /\ classified = None
    /\ dataset_args \in [num_patients : 0..MaxPatients, days_per_patient : 0..MaxSimDays]
    /\ \E rng \in PySeeds :
          LET k == IF dataset_args.num_patients < Len(PATIENTS)
                   THEN dataset_args.num_patients ELSE Len(PATIENTS)
          IN  /\ selected_patients = RandomSample(PATIENTS, k, rng)
              /\ py_rng = PyPos(rng, k)
    /\ all_readings = <<>>
    /\ patient_summaries = <<>>
    /\ dataset = None

NextDataset ==
    \/ StartSimulation
    \/ \E step_result \in DatasetStepResults : SimStep(step_result)
    \/ SimReturnEmpty
    \/ CollectPatient
    \/ ReturnDataset

SpecDataset == InitDataset /\ [][NextDataset]_vars

\* the patient whose simulation produced reading i of the concatenated list: the
\* p-th selected patient holds the readings after those of the first p - 1
ReadingsBefore(p) ==
    SumSeq([k \in 1..(p - 1) |-> dataset.patient_summaries[k].readings_count])
PatientOfReading(i) ==
    CHOOSE p \in 1..Len(dataset.patient_summaries) :
        ReadingsBefore(p) < i /\ i <= ReadingsBefore(p + 1)

\* the rapid changes between two readings of one patient, three readings apart
RapidChangesWithinPatients ==
    {i \in 4..Len(dataset.readings) :
        /\ PatientOfReading(i) = PatientOfReading(i - 3)
        /\ Abs(dataset.readings[i].glucose_mg_dl
               - dataset.readings[i - 3].glucose_mg_dl) > 300}

\* C21: the rapid changes identify_patterns counts in the dataset are those
\* between two readings of the same patient's simulation, three readings apart;
\* none comes from a reading of one patient compared with one of another.
C21_RapidChangesWithinOnePatient ==
    ~IsNone(dataset) =>
        dataset.anomaly_patterns.rapid_change_count
            = Cardinality(RapidChangesWithinPatients)

\* C22: generate_training_dataset never raises, whatever the simulations
\* produce (a simulation without a valid reading included), and the dataset it
\* returns has one summary per selected patient, patients_simulated =
\* min(num_patients, 13) distinct patients and total_readings equal to the sum
\* of the summaries' readings_count.
C22_DatasetCompletes ==
    /\ pc # "raised"
    /\ ~IsNone(dataset) =>
          /\ Len(dataset.patient_summaries) = Len(selected_patients)
          /\ dataset.patients_simulated
                 = (IF dataset_args.num_patients < 13
                    THEN dataset_args.num_patients ELSE 13)
          /\ Cardinality({dataset.patient_summaries[k].patient :
                             k \in DOMAIN dataset.patient_summaries})
                 = dataset.patients_simulated
          /\ dataset.total_readings
                 = SumSeq([k \in DOMAIN dataset.patient_summaries |->
                              dataset.patient_summaries[k].readings_count])

-----------------------------------------------------------------------------
(* classify_glucose on its own and on the readings run_simulation stored *)

BoundaryWidth == 10

\* glucose values around the four thresholds of classify_glucose, at the two
\* clipping limits of run_simulation, and beyond them.  A glucose value is a
\* number: run_simulation stores no reading for a CGM value that is NaN.
GlucoseSamples ==
    {v \in (540 - BoundaryWidth)..(2500 + BoundaryWidth) :
        \E b \in {540, 700, 1800, 2500} : Abs(v - b) <= BoundaryWidth}
    \cup {-10, 0, 400, 4000, 4010, PInf, NInf}

\* classify_glucose(value), called on a sample value instead of a simulation,
\* or on the glucose_mg_dl of a reading the simulation returned
Classify(value) ==
    /\ \/ pc = "sim" /\ sim_step = 0 /\ value \in GlucoseSamples
       \/ pc = "returned" /\ \E i \in DOMAIN readings : value = readings[i].glucose_mg_dl
    /\ classified' = [value |-> value, classification |-> ClassifyGlucose(value)]
    /\ pc' = "classified"
    /\ UNCHANGED <<num_people, days_per_person, people, all_data, gen_i, baselines,
                   results, np_rng, py_rng, clock, runs, statsVars, orderVars, cgmVars,
                   dataset_args, selected_patients, all_readings, patient_summaries,
                   dataset>>

NextClassify ==
    \/ NextCgm
    \/ \E value \in GlucoseSamples \cup {readings[i].glucose_mg_dl : i \in DOMAIN readings} :
          Classify(value)

SpecClassify == InitCgm /\ [][NextClassify]_vars

\* C23: classify_glucose sets exactly one of is_hypo, is_in_range, is_hyper; a
\* severe flag implies its plain flag; range_label is severe_hypo iff value < 54,
\* hypo iff 54 <= value < 70, normal iff is_in_range, hyper iff 180 < value <= 250,
\* severe_hyper iff value > 250; and every reading run_simulation stored has
\* glucose_mg_dl in [40, 400].
C23_ClassificationPartitionsAndReadingsClipped ==
    /\ ~IsNone(classified) =>
          LET value == classified.value
              c == classified.classification
          IN  /\ Cardinality({f \in {"is_hypo", "is_in_range", "is_hyper"} : c[f]}) = 1
              /\ c.is_severe_hypo => c.is_hypo
              /\ c.is_severe_hyper => c.is_hyper
              /\ c.range_label = "severe_hypo" <=> FLt(value, 540)
              /\ c.range_label = "hypo" <=> FLe(540, value) /\ FLt(value, 700)
              /\ c.range_label = "normal" <=> c.is_in_range
              /\ c.range_label = "hyper" <=> FLt(1800, value) /\ FLe(value, 2500)
              /\ c.range_label = "severe_hyper" <=> FGt(value, 2500)
    /\ \A i \in DOMAIN readings :
          /\ 400 <= readings[i].glucose_mg_dl
          /\ readings[i].glucose_mg_dl <= 4000

\* a simulation that stored a reading clipped to 40.0 and one clipped to 400.0,
\* the latter classified
C23_Witness ==
    /\ pc = "classified"
    /\ \E i \in DOMAIN readings : readings[i].glucose_mg_dl = 400
    /\ readings[Len(readings)].glucose_mg_dl = 4000
    /\ classified.value = 4000
    /\ classified.classification.range_label = "severe_hyper"
====
